---- MODULE Spec2Model ----
(***************************************************************************)
(* The Artificial Fish Swarm optimizer of backend/ml/optimization/afsa.py  *)
(* (ArtificialFishSwarmAlgorithm and the TrafficSignalOptimizer that       *)
(* drives it), as a state machine.                                         *)
(*                                                                         *)
(* Numbers.  Green times are floats in the code.  Here a position is a     *)
(* vector of integers: the model's numbers are fixed-point with a          *)
(* resolution of one unit, and a result that is not representable is       *)
(* rounded to the nearest unit (as IEEE-754 rounds at its own resolution). *)
(* Comparisons (distances, fitness, the crowding ratio, the centroid) are  *)
(* carried out exactly, on squared distances and cross-multiplied          *)
(* fractions.  A fitness value is the code's value times 10 * Scale(ctx),  *)
(* a positive factor, so every comparison of two fitness values is the     *)
(* code's; -inf and +inf are kept as values of their own.                  *)
(*                                                                         *)
(* Randomness.  random.uniform, random.choice and np.random.uniform read   *)
(* the process-wide generators; optimize takes no seed.  Every draw is a   *)
(* nondeterministic choice.  (The draw of an all-zero direction vector,    *)
(* which numpy turns into NaN, has probability 2^-53 per coordinate and is *)
(* left out.)                                                              *)
(***************************************************************************)
EXTENDS Integers, Sequences, FiniteSets, TLC

VARIABLES
  hp,                     \* ArtificialFishSwarmAlgorithm's hyperparameters
  lower_bounds,           \* lower bound of each coordinate
  upper_bounds,           \* upper bound of each coordinate
  cycle_time_constraint,  \* TrafficSignalOptimizer.cycle_time_constraint
  ctx,                    \* traffic context of the call in progress
  pc,                     \* "idle" | "loop" | "prey" | "done" | "raised"
  population,             \* the generation's snapshot
  new_population,         \* the generation being built
  iteration,              \* generations completed in this run
  i,                      \* index (1-based) of the individual being processed
  behavior,               \* behaviour drawn last ("none": none in this run)
  tries,                  \* Prey samples taken for individual i
  best_solution,          \* self.best_solution (<<>> is None)
  best_fitness,           \* self.best_fitness
  result,                 \* what optimize_signal_timings returned (NoResult: nothing)
  error,                  \* the exception that ended the call ("none": none)
  runs,                   \* history: optimize calls started on this instance
  commits,                \* history: individuals processed in this run
  feasible_evaluated,     \* history: the fitness function returned > -inf in this run
  first_run,              \* history: inputs and result of the first completed run
  sampled,                \* history: the last Prey sample taken for individual i was
                          \* "better" | "not_better" than its position ("none": none taken)
  members_best,           \* history: highest fitness of a member of any population so far
  best_before,            \* history: the best when the generation in progress began
  threads,                \* the optimize calls made concurrently on the instance:
                          \* position and local variables of each
  db,                     \* signal_control: the committed row of the signal
  cache,                  \* the Redis entry intersection:<id>:status ("none": absent)
  green_waves,            \* green_wave:<id> entries stored in Redis
  published,              \* messages published on Redis channels
  requests,               \* the HTTP requests: arguments, position, response
  running,                \* EdgeDeviceManager.running
  status,                 \* EdgeDeviceManager.status
  cmd,                    \* position of the thread calling start / stop / restart
  loops                   \* the background threads created so far, in order

vars == <<hp, lower_bounds, upper_bounds, cycle_time_constraint, ctx, pc,
          population, new_population, iteration, i, behavior, tries,
          best_solution, best_fitness, result, error, runs, commits,
          feasible_evaluated, first_run, sampled, members_best, best_before,
          threads, db, cache, green_waves, published, requests,
          running, status, cmd, loops>>

\* the state of the signal-control routes
route_state == <<db, cache, green_waves, published, requests>>

\* the state of the edge device manager
device_state == <<running, status, cmd, loops>>

\* the state of the other components
other_state == <<threads, route_state, device_state>>

-----------------------------------------------------------------------------
(* Bounds of the model *)

MaxIterations == 2
MaxRequests == 3
MaxStarts == 3
TryNumber == 2
MaxRuns == 2

-----------------------------------------------------------------------------
(* Arithmetic helpers *)

Abs(x) == IF x < 0 THEN -x ELSE x

Sign(x) == IF x < 0 THEN -1 ELSE IF x > 0 THEN 1 ELSE 0

\* Python's max(a, b) and min(a, b) on numbers
PyMax(a, b) == IF b > a THEN b ELSE a

PyMin(a, b) == IF b < a THEN b ELSE a

RECURSIVE SumTo(_, _)
SumTo(v, n) == IF n = 0 THEN 0 ELSE v[n] + SumTo(v, n - 1)

\* np.sum of a vector
Sum(v) == SumTo(v, Len(v))

RECURSIVE DotTo(_, _, _)
DotTo(a, b, n) == IF n = 0 THEN 0 ELSE a[n] * b[n] + DotTo(a, b, n - 1)

VecAdd(a, b) == [j \in 1..Len(a) |-> a[j] + b[j]]

VecSub(a, b) == [j \in 1..Len(a) |-> a[j] - b[j]]

VecScale(k, a) == [j \in 1..Len(a) |-> k * a[j]]

Zeros(n) == [j \in 1..n |-> 0]

\* np.linalg.norm(a - b), squared
Dist2(a, b) == DotTo(VecSub(a, b), VecSub(a, b), Len(a))

-----------------------------------------------------------------------------
(* Fitness values: -inf, a finite number, +inf *)

NegInf == [inf |-> -1, v |-> 0]

PosInf == [inf |-> 1, v |-> 0]

Finite(n) == [inf |-> 0, v |-> n]

\* a > b on floats
Gt(a, b) == \/ a.inf > b.inf
            \/ a.inf = 0 /\ b.inf = 0 /\ a.v > b.v

\* a <= b on floats (no NaN arises from the inputs modelled)
Le(a, b) == ~Gt(a, b)

Ge(a, b) == Le(b, a)

-----------------------------------------------------------------------------
(* Inputs *)

\* ArtificialFishSwarmAlgorithm.__init__: the hyperparameters of a valid instance.
\* crowd_factor is the fraction num / den.  With two fish a crowd_factor of 1/4
\* makes every neighbourhood crowded, and one of 1 makes none crowded.
Hyper(n, vr, cf_num, cf_den, s) ==
  [num_fish |-> n, max_iterations |-> MaxIterations, visual_range |-> vr,
   crowd_factor |-> [num |-> cf_num, den |-> cf_den], step_size |-> s,
   try_number |-> TryNumber]

Hypers == { Hyper(2, 2, 1, 4, 1), Hyper(2, 2, 1, 1, 1), Hyper(2, 2, 1, 1, 2) }

\* lower_bounds / upper_bounds handed to optimize, lower[j] <= upper[j]
BoundsSet == { [lower |-> <<1, 1>>, upper |-> <<3, 2>>] }

\* TrafficSignalOptimizer.cycle_time_constraint: one that no point of the box
\* meets, one that half of the box meets
CycleConstraints == {1, 3}

Setup(h, lower, upper, limit) ==
  [hp |-> h, lower |-> lower, upper |-> upper, limit |-> limit]

\* the valid instances
Setups ==
  { Setup(h, b.lower, b.upper, c) :
      h \in Hypers, b \in BoundsSet, c \in CycleConstraints }

NoCtx == [volumes |-> <<>>, queue_lengths |-> <<>>, waiting_times |-> <<>>,
          has_emergency |-> FALSE, emergency_priority |-> <<>>]

\* traffic contexts: every vector of length dims, waiting times > 0
Contexts ==
  { [volumes |-> <<0, 0>>, queue_lengths |-> <<0, 0>>, waiting_times |-> <<1, 2>>,
     has_emergency |-> FALSE, emergency_priority |-> <<>>],
    [volumes |-> <<1, 0>>, queue_lengths |-> <<0, 1>>, waiting_times |-> <<2, 1>>,
     has_emergency |-> TRUE, emergency_priority |-> <<0, 3>>] }

\* instances the code accepts although the bounds or a hyperparameter are out
\* of range: bounds with lower[1] > upper[1] (lower = [10, 20], upper = [15, 15]
\* at the model's scale), bounds of different lengths, and each hyperparameter
\* in turn at a value below its range (crowd_factor also above it)
BadHyper(n, it, vr, cf_num, cf_den, s, t) ==
  [num_fish |-> n, max_iterations |-> it, visual_range |-> vr,
   crowd_factor |-> [num |-> cf_num, den |-> cf_den], step_size |-> s,
   try_number |-> t]

BadSetups ==
  { Setup(Hyper(2, 2, 1, 1, 1), <<2, 4>>, <<3, 3>>, 7),
    Setup(Hyper(2, 2, 1, 1, 1), <<1, 1>>, <<3, 2, 9>>, 3),
    Setup(BadHyper(0, 1, 2, 1, 1, 1, 1), <<1, 1>>, <<3, 2>>, 3),
    Setup(BadHyper(2, 0, 2, 1, 1, 1, 1), <<1, 1>>, <<3, 2>>, 3),
    Setup(BadHyper(2, 1, 0, 1, 1, 1, 1), <<1, 1>>, <<3, 2>>, 3),
    Setup(BadHyper(2, 1, 2, 0, 1, 1, 1), <<1, 1>>, <<3, 2>>, 3),
    Setup(BadHyper(2, 1, 2, 2, 1, 1, 1), <<1, 1>>, <<3, 2>>, 3),
    Setup(BadHyper(2, 1, 2, 1, 1, 0, 1), <<1, 1>>, <<3, 2>>, 3),
    Setup(BadHyper(2, 1, 2, 1, 1, 1, 0), <<1, 1>>, <<3, 2>>, 3),
    Setup(Hyper(2, 2, 1, 1, 1), <<1, 1>>, <<3, 2>>, 0) }

\* one valid instance
OneSetup == { Setup(Hyper(2, 2, 1, 1, 1), <<1, 1>>, <<3, 2>>, 3) }

OneContext ==
  { [volumes |-> <<0, 0>>, queue_lengths |-> <<0, 0>>, waiting_times |-> <<1, 2>>,
     has_emergency |-> FALSE, emergency_priority |-> <<>>] }

\* contexts the code accepts although a vector is longer than the number of
\* phases or a waiting time is zero or negative.  (A vector shorter than the
\* number of phases ends the first evaluation of a feasible candidate with an
\* IndexError; that case is not modelled.)
BadContexts ==
  { [volumes |-> <<1, 0, 5>>, queue_lengths |-> <<0, 1>>, waiting_times |-> <<2, 1>>,
     has_emergency |-> FALSE, emergency_priority |-> <<>>],
    [volumes |-> <<1, 0>>, queue_lengths |-> <<0, 1>>, waiting_times |-> <<0, 1>>,
     has_emergency |-> FALSE, emergency_priority |-> <<>>],
    [volumes |-> <<1, 0>>, queue_lengths |-> <<0, 1>>, waiting_times |-> <<0 - 1, 2>>,
     has_emergency |-> FALSE, emergency_priority |-> <<>>],
    [volumes |-> <<1, 0>>, queue_lengths |-> <<0, 1>>, waiting_times |-> <<2, 1>>,
     has_emergency |-> TRUE, emergency_priority |-> <<0, 3, 1>>] }

-----------------------------------------------------------------------------
(* TrafficSignalOptimizer.fitness_function *)

RECURSIVE ScaleTo(_, _)
ScaleTo(w, n) ==
  IF n = 0 THEN 1 ELSE (IF w[n] = 0 THEN 1 ELSE Abs(w[n])) * ScaleTo(w, n - 1)

\* the positive factor that makes every solution[i] / waiting_times[i] an integer
Scale(c, n) == ScaleTo(c.waiting_times, n)

RECURSIVE WaitTo(_, _, _, _)
WaitTo(solution, w, sc, n) ==
  IF n = 0 THEN 0
  ELSE (IF w[n] = 0 THEN 0 ELSE solution[n] * Sign(w[n]) * (sc \div Abs(w[n])))
       + WaitTo(solution, w, sc, n - 1)

\* the weighted sum with the weights of throughput and queue reduction exchanged
WeightedSumWeightsExchanged(solution, c) ==
  LET n == Len(solution)
      sc == Scale(c, n)
      emergency_score == IF c.has_emergency
                         THEN DotTo(solution, c.emergency_priority, n) ELSE 0
  IN Finite(sc * (3 * DotTo(solution, c.volumes, n)
                  + 4 * DotTo(solution, c.queue_lengths, n) + 1 * emergency_score)
            + 2 * WaitTo(solution, c.waiting_times, sc, n))

\* the weighted sum of lines 345-364, times 10 * Scale; a positive coordinate
\* divided by a waiting time of 0 is numpy's +inf
WeightedSum(solution, c) ==
  LET n == Len(solution)
      sc == Scale(c, n)
      throughput == DotTo(solution, c.volumes, n)
      queue_reduction == DotTo(solution, c.queue_lengths, n)
      waiting_time_reduction == WaitTo(solution, c.waiting_times, sc, n)
      emergency_score == IF c.has_emergency
                         THEN DotTo(solution, c.emergency_priority, n) ELSE 0
  IN IF \E k \in 1..n : c.waiting_times[k] = 0 /\ solution[k] > 0
     THEN PosInf
     ELSE Finite(sc * (4 * throughput + 3 * queue_reduction + 1 * emergency_score)
                 + 2 * waiting_time_reduction)

\* the cycle time check, off by one unit
ExceedsCycleTimeOffByOne(total, limit) == total > limit + 1

\* the cycle time check of lines 340-342
ExceedsCycleTime(total, limit) == total > limit

\* fitness_function without its cycle time check
FitnessUnconstrained(solution, c, limit) == WeightedSum(solution, c)

\* lines 339-366
fitness_function(solution, c, limit) ==
  IF ExceedsCycleTime(Sum(solution), limit) THEN NegInf ELSE WeightedSum(solution, c)

\* the closure `fitness` of optimize_signal_timings
fitness(solution) == fitness_function(solution, ctx, cycle_time_constraint)

\* fitness of the point total / k, times k (the centroid of k neighbours)
FitnessOfMean(total, k) ==
  IF ExceedsCycleTime(Sum(total), k * cycle_time_constraint) THEN NegInf
  ELSE WeightedSum(total, ctx)

TimesK(f, k) == [inf |-> f.inf, v |-> k * f.v]

-----------------------------------------------------------------------------
(* Geometry of the behaviours *)

dimensions == Len(lower_bounds)

\* Clamp with the upper bound forgotten
ClampLowerOnly(pos) ==
  [j \in 1..Len(pos) |-> PyMax(lower_bounds[j], pos[j])]

\* lines 97-98, 165-166, 229-230: max(lower, min(upper, x)) on every coordinate
Clamp(pos) ==
  [j \in 1..Len(pos) |-> PyMax(lower_bounds[j], PyMin(upper_bounds[j], pos[j]))]

\* random.uniform(lower, upper): any value between the two, whichever is larger
UniformValues(j) ==
  PyMin(lower_bounds[j], upper_bounds[j]) .. PyMax(lower_bounds[j], upper_bounds[j])

\* lines 90-94: visual_range times a unit vector, rounded to the grid: the
\* grid vectors whose cell meets the sphere of radius |visual_range|
Directions(n, r) ==
  { d \in [1..n -> (0 - Abs(r))..Abs(r)] :
      LET inner == [j \in 1..n |-> IF d[j] = 0 THEN 0 ELSE 2 * Abs(d[j]) - 1]
          outer == [j \in 1..n |-> 2 * Abs(d[j]) + 1]
      IN /\ DotTo(inner, inner, n) <= 4 * r * r
         /\ 4 * r * r <= DotTo(outer, outer, n) }

\* a move onto the target itself, whatever step_size is
StepOntoTarget(current, direction, step) == VecAdd(current, direction)

\* |step| * |x| / sqrt(d2), rounded to the nearest integer
RoundedShare(step, x, d2) ==
  CHOOSE r \in 0..(Abs(step) + 1) :
    /\ r = 0 \/ (2 * r - 1) * (2 * r - 1) * d2 <= 4 * step * step * x * x
    /\ 4 * step * step * x * x < (2 * r + 1) * (2 * r + 1) * d2

\* lines 158-162, 222-226: current + step_size * direction / norm(direction);
\* a zero direction is left as it is
StepToward(current, direction, step) ==
  LET d2 == DotTo(direction, direction, Len(direction))
  IN IF d2 = 0 THEN current
     ELSE [j \in 1..Len(current) |->
             current[j] + Sign(step) * Sign(direction[j])
                          * RoundedShare(step, direction[j], d2)]

\* the neighbourhood with the fish at distance exactly visual_range counted
InVisualRangeInclusive(a, b) ==
  /\ hp.visual_range > 0
  /\ 0 < Dist2(a, b)
  /\ Dist2(a, b) <= hp.visual_range * hp.visual_range

\* lines 134-137, 199-201: 0 < distance < visual_range
InVisualRange(a, b) ==
  /\ hp.visual_range > 0
  /\ 0 < Dist2(a, b)
  /\ Dist2(a, b) < hp.visual_range * hp.visual_range

\* indices of the neighbours of current in the snapshot
Neighbors(current, pop) == { k \in 1..Len(pop) : InVisualRange(pop[k], current) }

\* the crowding test with >= for >
CrowdedOrEqual(count) == count * hp.crowd_factor.den >= hp.crowd_factor.num * hp.num_fish

\* count / num_fish > crowd_factor (lines 150, 218)
Crowded(count) == count * hp.crowd_factor.den > hp.crowd_factor.num * hp.num_fish

RECURSIVE VecSumOver(_, _, _)
VecSumOver(pop, ks, n) ==
  IF ks = {} THEN Zeros(n)
  ELSE LET k == CHOOSE x \in ks : TRUE
       IN VecAdd(pop[k], VecSumOver(pop, ks \ {k}, n))

-----------------------------------------------------------------------------
(* The behaviours.  Each returns [prey, pos, centre]: prey says that the     *)
(* behaviour hands over to prey_behavior, pos is the position it returns     *)
(* otherwise, centre the fitness it evaluated at the neighbours' centre      *)
(* (NegInf when it evaluated none).                                          *)

Delegate(current) == [prey |-> TRUE, pos |-> current, centre |-> NegInf]

Moved(pos, centre) == [prey |-> FALSE, pos |-> pos, centre |-> centre]

\* swarm_behavior, lines 129-171
swarm_behavior(current, pop) ==
  LET neighbors == Neighbors(current, pop)
      count == Cardinality(neighbors)
      total == VecSumOver(pop, neighbors, Len(current))
      center_fitness == FitnessOfMean(total, count)
  IN IF neighbors = {} THEN Moved(current, NegInf)
     ELSE IF Crowded(count) THEN Delegate(current)
     ELSE IF Gt(center_fitness, TimesK(fitness(current), count))
          THEN Moved(Clamp(StepToward(current,
                                      VecSub(total, VecScale(count, current)),
                                      hp.step_size)),
                     center_fitness)
          ELSE [prey |-> TRUE, pos |-> current, centre |-> center_fitness]

\* lines 196-205: the first neighbour of the highest fitness above -inf (0: none)
BestNeighbor(current, pop) ==
  LET neighbors == Neighbors(current, pop)
      better == { k \in neighbors : Gt(fitness(pop[k]), NegInf) }
      top == { k \in better : \A m \in better : Le(fitness(pop[m]), fitness(pop[k])) }
  IN IF top = {} THEN 0 ELSE CHOOSE k \in top : \A m \in top : k <= m

\* lines 212-216: the fish within visual_range of the best neighbour
NeighborsCount(best_neighbor, pop) ==
  Cardinality({ k \in 1..Len(pop) :
                  hp.visual_range > 0 /\
                  Dist2(pop[k], best_neighbor) < hp.visual_range * hp.visual_range })

\* follow_behavior, lines 192-232
follow_behavior(current, pop) ==
  LET b == BestNeighbor(current, pop)
  IN IF b = 0 \/ Le(fitness(pop[b]), fitness(current)) THEN Delegate(current)
     ELSE IF Crowded(NeighborsCount(pop[b], pop)) THEN Delegate(current)
     ELSE Moved(Clamp(StepToward(current, VecSub(pop[b], current), hp.step_size)),
                NegInf)

\* lines 270-275
Behave(b, current, pop) ==
  IF b = "prey" THEN Delegate(current)
  ELSE IF b = "swarm" THEN swarm_behavior(current, pop)
  ELSE follow_behavior(current, pop)

\* lines 94-98: one sample of prey_behavior
PreySample(current, d) == Clamp(VecAdd(current, d))

\* the positions one sample can give
PreySamples(current) ==
  { PreySample(current, d) : d \in Directions(Len(current), hp.visual_range) }

\* a sample taken when its fitness is lower
PreyAcceptsWorse(new_fitness, current_fitness) == Gt(current_fitness, new_fitness)

\* every sample taken
PreyAcceptsAny(new_fitness, current_fitness) == TRUE

\* an infeasible individual takes any sample
PreyAcceptsFromInfeasible(new_fitness, current_fitness) ==
  Gt(new_fitness, current_fitness) \/ current_fitness = NegInf

\* a sample taken also when its fitness is only equal
PreyAcceptsNotWorse(new_fitness, current_fitness) == Ge(new_fitness, current_fitness)

\* line 104: the sample is taken when its fitness is strictly higher
PreyAccepts(new_fitness, current_fitness) == Gt(new_fitness, current_fitness)

-----------------------------------------------------------------------------
(* optimize *)

\* the highest of the fitness values of a population (line 255)
MaxFitness(pop, c) ==
  LET values == { fitness_function(pop[k], c, cycle_time_constraint) :
                    k \in 1..Len(pop) }
  IN CHOOSE f \in values : \A g \in values : Le(g, f)

\* the first individual taken as the best, whatever its fitness
ArgMaxFirstIndex(pop, c) == 1

\* np.argmax of the fitness values (line 256): the first index of the maximum
ArgMax(pop, c) ==
  CHOOSE k \in 1..Len(pop) :
    /\ \A m \in 1..Len(pop) : Le(fitness_function(pop[m], c, cycle_time_constraint),
                                 fitness_function(pop[k], c, cycle_time_constraint))
    /\ \A m \in 1..(k - 1) : Gt(fitness_function(pop[k], c, cycle_time_constraint),
                                fitness_function(pop[m], c, cycle_time_constraint))

\* the best of the run before kept when it is higher than the initial best
InitialBestKept(pop, c) ==
  LET best_index == ArgMax(pop, c)
      f == fitness_function(pop[best_index], c, cycle_time_constraint)
  IN IF Gt(best_fitness, f)
     THEN [solution |-> best_solution, fitness |-> best_fitness]
     ELSE [solution |-> pop[best_index], fitness |-> f]

\* lines 255-258: the best is set to the first individual of the highest
\* fitness of the initial population, whatever it was before
InitialBest(pop, c) ==
  LET best_index == ArgMax(pop, c)
  IN [solution |-> pop[best_index],
      fitness |-> fitness_function(pop[best_index], c, cycle_time_constraint)]

\* the loop with an early exit once a feasible best is known
LoopRunsUntilFeasible(done) ==
  done < hp.max_iterations /\ ~Gt(best_fitness, NegInf)

\* line 261: for iteration in range(self.max_iterations)
LoopRuns(done) == done < hp.max_iterations

\* the best replaced only while it is -inf: the first feasible position is kept
UpdateBestFirstFeasible(solution, fit, new_position, new_fitness) ==
  IF fit = NegInf /\ Gt(new_fitness, fit)
  THEN [solution |-> new_position, fitness |-> new_fitness]
  ELSE [solution |-> solution, fitness |-> fit]

\* the fitness replaced and the solution left as it was
UpdateBestFitnessOnly(solution, fit, new_position, new_fitness) ==
  IF Gt(new_fitness, fit)
  THEN [solution |-> solution, fitness |-> new_fitness]
  ELSE [solution |-> solution, fitness |-> fit]

\* UpdateBest without its comparison: the last position evaluated is kept
UpdateBestAlways(solution, fit, new_position, new_fitness) ==
  [solution |-> new_position, fitness |-> new_fitness]

\* UpdateBest with its comparison reversed
UpdateBestReversed(solution, fit, new_position, new_fitness) ==
  IF Gt(fit, new_fitness)
  THEN [solution |-> new_position, fitness |-> new_fitness]
  ELSE [solution |-> solution, fitness |-> fit]

\* lines 280-283: the best after new_position has been evaluated
UpdateBest(solution, fit, new_position, new_fitness) ==
  IF Gt(new_fitness, fit)
  THEN [solution |-> new_position, fitness |-> new_fitness]
  ELSE [solution |-> solution, fitness |-> fit]

\* the new position written one place further (wrapping round)
StoreAtNext(new_pop, k, new_position) ==
  [new_pop EXCEPT ![(k % Len(new_pop)) + 1] = new_position]

\* line 277: new_population[i] = new_position
StoreAt(new_pop, k, new_position) == [new_pop EXCEPT ![k] = new_position]

\* the new position written into the snapshot as well (an in-place update)
SnapshotUpdatedInPlace(pop, k, new_position) == [pop EXCEPT ![k] = new_position]

\* line 277 writes new_population[i]; the snapshot is left as it is
SnapshotAfterStore(pop, k, new_position) == pop

\* lines 401-410
NoResult == [green_times |-> <<>>, cycle_time |-> 0, phase_proportions |-> <<>>,
             fitness |-> NegInf, returned |-> FALSE]

\* the result with the cycle time constraint reported as the cycle time
FormatResultNominalCycle(solution, fit) ==
  [green_times |-> solution,
   cycle_time |-> cycle_time_constraint,
   phase_proportions |-> [j \in 1..Len(solution) |->
                            [num |-> solution[j], den |-> cycle_time_constraint]],
   fitness |-> fit,
   returned |-> TRUE]

\* a phase proportion is the fraction num / den
FormatResult(solution, fit) ==
  LET total_cycle_time == Sum(solution)
  IN [green_times |-> solution,
      cycle_time |-> total_cycle_time,
      phase_proportions |-> [j \in 1..Len(solution) |->
                               [num |-> solution[j], den |-> total_cycle_time]],
      fitness |-> fit,
      returned |-> TRUE]

NoRun == [ctx |-> NoCtx, result |-> NoResult]

\* lines 264-283 as a fold: the candidates are compared with the best one
\* after the other, in the order given
RECURSIVE FoldBest(_, _, _)
FoldBest(best, candidates, order) ==
  IF order = <<>> THEN best
  ELSE LET new_position == candidates[Head(order)]
       IN FoldBest(UpdateBest(best.solution, best.fitness,
                              new_position, fitness(new_position)),
                   candidates, Tail(order))

-----------------------------------------------------------------------------
(* The state machine *)

Feasible(f) == Gt(f, NegInf)

\* the HTTP requests served
Requests == 1..MaxRequests

\* a request not yet received
NoRequest ==
  [op |-> "none", pc |-> "none", intersections |-> <<>>, signal_id |-> "none",
   status |-> "none", signals |-> "none", quiet |-> FALSE, valid |-> {},
   code |-> 0, detail |-> "none", body |-> "none"]

\* the callers of optimize on the one instance
Threads == {1, 2}

\* a caller that has not called yet
IdleThread ==
  [pc |-> "idle", ctx |-> NoCtx, population |-> <<>>, new_population |-> <<>>,
   iteration |-> 0, i |-> 0, new_position |-> <<>>, new_fitness |-> NegInf,
   solution |-> <<>>, fitness |-> NegInf, members |-> {}]

\* the other components before anything has run
OtherInit ==
  /\ threads = [t \in Threads |-> IdleThread]
  /\ db = [current_status |-> "red", default_timing |-> 30]
  /\ cache = "none"
  /\ green_waves = 0
  /\ published = 0
  /\ requests = [r \in Requests |-> NoRequest]
  /\ running = FALSE
  /\ status = "initializing"
  /\ cmd = "idle"
  /\ loops = <<>>

\* the state after TrafficSignalOptimizer.__init__ (lines 314-318, 34-41), the
\* bounds being those optimize will be handed
InitFrom(setups) ==
  /\ \E s \in setups :
       /\ hp = s.hp
       /\ lower_bounds = s.lower
       /\ upper_bounds = s.upper
       /\ cycle_time_constraint = s.limit
  /\ ctx = NoCtx
  /\ pc = "idle"
  /\ population = <<>>
  /\ new_population = <<>>
  /\ iteration = 0
  /\ i = 0
  /\ behavior = "none"
  /\ tries = 0
  /\ best_solution = <<>>
  /\ best_fitness = NegInf
  /\ result = NoResult
  /\ error = "none"
  /\ runs = 0
  /\ commits = 0
  /\ feasible_evaluated = FALSE
  /\ first_run = NoRun
  /\ sampled = "none"
  /\ members_best = NegInf
  /\ best_before = [solution |-> <<>>, fitness |-> NegInf]
  /\ OtherInit

Init == InitFrom(Setups)

\* initialize_population, lines 58-64: every population the draws can give
Span ==
  LET all == UNION { UniformValues(j) : j \in 1..dimensions }
  IN IF all = {} THEN {}
     ELSE (CHOOSE x \in all : \A y \in all : x <= y) ..
          (CHOOSE x \in all : \A y \in all : x >= y)

InitialPopulations ==
  [1..hp.num_fish -> { p \in [1..dimensions -> Span] :
                         \A j \in 1..dimensions : p[j] \in UniformValues(j) }]

\* optimize_signal_timings up to the loop of optimize: lines 385-399, 251-258.
\* np.argmax of an empty array raises ValueError.
Call(contexts) ==
  /\ pc \in {"idle", "done"}
  /\ runs < MaxRuns
  /\ runs' = runs + 1
  /\ \E c \in contexts :
       /\ ctx' = c
       /\ IF hp.num_fish <= 0
          THEN /\ pc' = "raised"
               /\ error' = "ValueError"
               /\ population' = <<>>
               /\ members_best' = NegInf
               /\ UNCHANGED <<best_solution, best_fitness, feasible_evaluated,
                              best_before>>
          ELSE \E pop \in InitialPopulations :
                 LET best == InitialBest(pop, c)
                     f(k) == fitness_function(pop[k], c, cycle_time_constraint)
                 IN /\ population' = pop
                    /\ best_solution' = best.solution
                    /\ best_fitness' = best.fitness
                    /\ best_before' = best
                    /\ feasible_evaluated' = \E k \in 1..Len(pop) : Feasible(f(k))
                    /\ members_best' = MaxFitness(pop, c)
                    /\ pc' = "loop"
                    /\ error' = "none"
  /\ new_population' = IF hp.num_fish > 0 /\ hp.max_iterations > 0
                       THEN [k \in 1..hp.num_fish |-> Zeros(dimensions)]
                       ELSE <<>>
  /\ iteration' = 0
  /\ i' = 1
  /\ behavior' = "none"
  /\ tries' = 0
  /\ commits' = 0
  /\ result' = NoResult
  /\ sampled' = "none"
  /\ UNCHANGED <<hp, lower_bounds, upper_bounds, cycle_time_constraint, first_run>>
  /\ UNCHANGED other_state

\* lines 277-283: new_position is stored and compared with the best
Commit(b, new_position, evaluated) ==
  LET new_fitness == fitness(new_position)
      best == UpdateBest(best_solution, best_fitness, new_position, new_fitness)
  IN /\ new_population' = StoreAt(new_population, i, new_position)
     /\ population' = SnapshotAfterStore(population, i, new_position)
     /\ best_solution' = best.solution
     /\ best_fitness' = best.fitness
     /\ feasible_evaluated' = (feasible_evaluated \/ evaluated \/ Feasible(new_fitness))
     /\ behavior' = b
     /\ i' = i + 1
     /\ commits' = commits + 1
     /\ pc' = "loop"
     /\ tries' = 0

\* lines 264-275 for individual i: the behaviour is drawn and applied, up to
\* the first sample of prey_behavior
FishStep ==
  /\ pc = "loop"
  /\ LoopRuns(iteration)
  /\ i <= hp.num_fish
  /\ \E b \in {"prey", "swarm", "follow"} :
       LET current_fish == population[i]
           out == Behave(b, current_fish, population)
           evaluated ==
             \/ Feasible(fitness(current_fish))
             \/ Feasible(out.centre)
             \/ /\ b = "follow"
                /\ \E k \in Neighbors(current_fish, population) :
                     Feasible(fitness(population[k]))
       IN IF out.prey /\ hp.try_number > 0
          THEN /\ pc' = "prey"
               /\ behavior' = b
               /\ tries' = 0
               /\ feasible_evaluated' = (feasible_evaluated \/ evaluated)
               /\ UNCHANGED <<population, new_population, best_solution,
                              best_fitness, i, commits>>
          ELSE Commit(b, out.pos, evaluated)
  /\ sampled' = "none"
  /\ UNCHANGED <<hp, lower_bounds, upper_bounds, cycle_time_constraint, ctx,
                 iteration, result, error, runs, first_run, members_best,
                 best_before>>
  /\ UNCHANGED other_state

\* one pass of the loop of prey_behavior, lines 87-108
PreyTry ==
  /\ pc = "prey"
  /\ \E new_position \in PreySamples(population[i]) :
       LET current_fish == population[i]
           new_fitness == fitness(new_position)
       IN /\ sampled' = IF Gt(new_fitness, fitness(current_fish))
                       THEN "better" ELSE "not_better"
          /\ IF PreyAccepts(new_fitness, fitness(current_fish))
             THEN Commit(behavior, new_position, Feasible(new_fitness))
             ELSE IF tries + 1 >= hp.try_number
             THEN Commit(behavior, current_fish, Feasible(new_fitness))
             ELSE /\ tries' = tries + 1
                  /\ feasible_evaluated' = (feasible_evaluated \/ Feasible(new_fitness))
                  /\ UNCHANGED <<population, new_population, best_solution,
                                 best_fitness, i, commits, pc, behavior>>
  /\ UNCHANGED <<hp, lower_bounds, upper_bounds, cycle_time_constraint, ctx,
                 iteration, result, error, runs, first_run, members_best,
                 best_before>>
  /\ UNCHANGED other_state

\* lines 286-290: the population is replaced by the new generation
EndGeneration ==
  /\ pc = "loop"
  /\ LoopRuns(iteration)
  /\ i > hp.num_fish
  /\ population' = new_population
  /\ new_population' = IF LoopRuns(iteration + 1)
                       THEN [k \in 1..hp.num_fish |-> Zeros(dimensions)]
                       ELSE new_population
  /\ iteration' = iteration + 1
  /\ i' = 1
  /\ members_best' = LET m == MaxFitness(new_population, ctx)
                      IN IF Gt(m, members_best) THEN m ELSE members_best
  /\ best_before' = [solution |-> best_solution, fitness |-> best_fitness]
  /\ sampled' = "none"
  /\ UNCHANGED <<hp, lower_bounds, upper_bounds, cycle_time_constraint, ctx, pc,
                 behavior, tries, best_solution, best_fitness, result, error,
                 runs, commits, feasible_evaluated, first_run>>
  /\ UNCHANGED other_state

\* line 292 and lines 401-410: the best is returned and formatted
Return(history) ==
  /\ pc = "loop"
  /\ ~LoopRuns(iteration)
  /\ pc' = "done"
  /\ result' = FormatResult(best_solution, best_fitness)
  /\ first_run' = IF history /\ first_run = NoRun
                  THEN [ctx |-> ctx, result |-> result'] ELSE first_run
  /\ UNCHANGED <<hp, lower_bounds, upper_bounds, cycle_time_constraint, ctx,
                 population, new_population, iteration, i, behavior, tries,
                 best_solution, best_fitness, error, runs, commits,
                 feasible_evaluated, sampled, members_best, best_before>>
  /\ UNCHANGED other_state

Next ==
  \/ Call(Contexts)
  \/ FishStep
  \/ PreyTry
  \/ EndGeneration
  \/ Return(FALSE)

Spec == Init /\ [][Next]_vars

\* the steps of a run in progress
RunStep == FishStep \/ PreyTry \/ EndGeneration \/ Return(FALSE)

\* two of the valid instances: one whose moves take place and one for which
\* no point of the box is feasible
FairSetups ==
  { Setup(Hyper(2, 2, 1, 1, 2), <<1, 1>>, <<3, 2>>, 3),
    Setup(Hyper(2, 2, 1, 4, 1), <<1, 1>>, <<3, 2>>, 1) }

InitFair == InitFrom(FairSetups)

\* optimize is sequential code without blocking calls: a run in progress
\* takes its next step
SpecFair == InitFair /\ [][Next]_vars /\ WF_vars(RunStep)

\* instances built with bounds or hyperparameters out of range
InitBadSetup == InitFrom(BadSetups)

NextBadSetup ==
  \/ Call(OneContext)
  \/ FishStep
  \/ PreyTry
  \/ EndGeneration
  \/ Return(FALSE)

SpecBadSetup == InitBadSetup /\ [][NextBadSetup]_vars

\* a valid instance called with malformed traffic contexts
InitOne == InitFrom(OneSetup)

NextBadContext ==
  \/ Call(BadContexts)
  \/ FishStep
  \/ PreyTry
  \/ EndGeneration
  \/ Return(FALSE)

SpecBadContext == InitOne /\ [][NextBadContext]_vars

\* a valid instance called repeatedly, the first run's inputs and result kept
NextRepeat ==
  \/ Call(Contexts)
  \/ FishStep
  \/ PreyTry
  \/ EndGeneration
  \/ Return(TRUE)

SpecRepeat == InitOne /\ [][NextRepeat]_vars

\* instances whose minimum green time is 0: TrafficSignalOptimizer(2,
\* min_green_time=0, max_green_time=0) and (2, min_green_time=0, max_green_time=1)
ZeroSetups ==
  { Setup(Hyper(2, 2, 1, 1, 1), <<0, 0>>, <<0, 0>>, 1),
    Setup(Hyper(2, 2, 1, 1, 1), <<0, 0>>, <<1, 1>>, 1) }

InitZeroBounds == InitFrom(ZeroSetups)

SpecZeroBounds == InitZeroBounds /\ [][Next]_vars

\* contexts under which different candidates have the same fitness (phases
\* with the same volumes and waiting times), and one under which none have
TieContexts ==
  { [volumes |-> <<1, 1>>, queue_lengths |-> <<0, 0>>, waiting_times |-> <<1, 1>>,
     has_emergency |-> FALSE, emergency_priority |-> <<>>],
    [volumes |-> <<0, 0>>, queue_lengths |-> <<0, 0>>, waiting_times |-> <<1, 2>>,
     has_emergency |-> FALSE, emergency_priority |-> <<>>] }

NextTies ==
  \/ Call(TieContexts)
  \/ FishStep
  \/ PreyTry
  \/ EndGeneration
  \/ Return(FALSE)

SpecTies == InitOne /\ [][NextTies]_vars

-----------------------------------------------------------------------------
(* Two calls of optimize interleaved on one instance.  self.best_solution    *)
(* and self.best_fitness are the instance's; everything else a call uses is  *)
(* local to it.  A step is one read or one write of a field of the instance, *)
(* with the local computation that precedes it.  The instance has a single   *)
(* fish, so swarm_behavior finds no neighbour and returns the position, and  *)
(* follow_behavior finds none and hands over to prey_behavior.               *)

\* the variables of the sequential run, which the concurrent calls do not use
run_state == <<hp, lower_bounds, upper_bounds, cycle_time_constraint, ctx, pc,
               population, new_population, iteration, i, behavior, tries,
               result, error, runs, commits, feasible_evaluated, first_run,
               sampled, members_best, best_before>>

\* an instance of one fish, one generation and one Prey sample
ConcurrentSetups == { Setup(BadHyper(1, 1, 2, 1, 1, 1, 1), <<1, 1>>, <<3, 2>>, 3) }

InitConcurrent == InitFrom(ConcurrentSetups)

\* the closure `fitness` of the call of thread t
fitness_of(t, solution) ==
  fitness_function(solution, threads[t].ctx, cycle_time_constraint)

\* prey_behavior, lines 85-108, for try_number >= 1: a sample of higher
\* fitness, or the position when the samples drawn can all fail
PreyOutcomes(current, c) ==
  LET f(p) == fitness_function(p, c, cycle_time_constraint)
      samples == PreySamples(current)
  IN { s \in samples : PreyAccepts(f(s), f(current)) }
     \cup (IF \E s \in samples : ~PreyAccepts(f(s), f(current))
           THEN {current} ELSE {})

\* lines 270-275 with a single fish
LoneFishOutcomes(b, current, c) ==
  IF b = "swarm" THEN {current} ELSE PreyOutcomes(current, c)

Members(pop) == { pop[k] : k \in 1..Len(pop) }

\* lines 251-256: the call begins; the population and best_idx are local
Enter(t) ==
  /\ threads[t].pc = "idle"
  /\ \E c \in Contexts, pop \in InitialPopulations :
       threads' = [threads EXCEPT ![t] =
                     [@ EXCEPT !.pc = "set_solution", !.ctx = c,
                               !.population = pop, !.members = Members(pop),
                               !.new_population = pop, !.i = 1]]
  /\ UNCHANGED <<best_solution, best_fitness>>
  /\ UNCHANGED <<run_state, route_state, device_state>>

\* line 257
SetInitialSolution(t) ==
  /\ threads[t].pc = "set_solution"
  /\ best_solution' = threads[t].population[ArgMax(threads[t].population,
                                                   threads[t].ctx)]
  /\ threads' = [threads EXCEPT ![t].pc = "set_fitness"]
  /\ UNCHANGED best_fitness
  /\ UNCHANGED <<run_state, route_state, device_state>>

\* line 258
SetInitialFitness(t) ==
  /\ threads[t].pc = "set_fitness"
  /\ best_fitness' = InitialBest(threads[t].population, threads[t].ctx).fitness
  /\ threads' = [threads EXCEPT ![t].pc = "loop"]
  /\ UNCHANGED best_solution
  /\ UNCHANGED <<run_state, route_state, device_state>>

\* lines 264-277: the new position of individual i is computed and stored
ApplyBehavior(t) ==
  LET th == threads[t]
  IN /\ th.pc = "loop"
     /\ th.iteration < hp.max_iterations
     /\ th.i <= hp.num_fish
     /\ \E b \in {"prey", "swarm", "follow"} :
          \E p \in LoneFishOutcomes(b, th.population[th.i], th.ctx) :
            threads' = [threads EXCEPT ![t] =
                          [@ EXCEPT !.pc = "compare", !.new_position = p,
                                    !.new_fitness = fitness_of(t, p),
                                    !.new_population = StoreAt(@, th.i, p)]]
     /\ UNCHANGED <<best_solution, best_fitness>>
     /\ UNCHANGED <<run_state, route_state, device_state>>

\* line 281: self.best_fitness is read and compared
CompareWithBest(t) ==
  /\ threads[t].pc = "compare"
  /\ threads' = [threads EXCEPT ![t] =
                   IF Gt(@.new_fitness, best_fitness)
                   THEN [@ EXCEPT !.pc = "update_fitness"]
                   ELSE [@ EXCEPT !.pc = "loop", !.i = @ + 1]]
  /\ UNCHANGED <<best_solution, best_fitness>>
  /\ UNCHANGED <<run_state, route_state, device_state>>

\* line 282
UpdateBestFitness(t) ==
  /\ threads[t].pc = "update_fitness"
  /\ best_fitness' = threads[t].new_fitness
  /\ threads' = [threads EXCEPT ![t].pc = "update_solution"]
  /\ UNCHANGED best_solution
  /\ UNCHANGED <<run_state, route_state, device_state>>

\* line 283
UpdateBestSolution(t) ==
  /\ threads[t].pc = "update_solution"
  /\ best_solution' = threads[t].new_position
  /\ threads' = [threads EXCEPT ![t] = [@ EXCEPT !.pc = "loop", !.i = @ + 1]]
  /\ UNCHANGED best_fitness
  /\ UNCHANGED <<run_state, route_state, device_state>>

\* line 286
InstallGeneration(t) ==
  LET th == threads[t]
  IN /\ th.pc = "loop"
     /\ th.iteration < hp.max_iterations
     /\ th.i > hp.num_fish
     /\ threads' = [threads EXCEPT ![t] =
                      [@ EXCEPT !.population = th.new_population,
                                !.members = @ \cup Members(th.new_population),
                                !.iteration = @ + 1, !.i = 1]]
     /\ UNCHANGED <<best_solution, best_fitness>>
     /\ UNCHANGED <<run_state, route_state, device_state>>

\* line 292, first element of the tuple: self.best_solution is read
ReadBestSolution(t) ==
  /\ threads[t].pc = "loop"
  /\ threads[t].iteration >= hp.max_iterations
  /\ threads' = [threads EXCEPT ![t] =
                   [@ EXCEPT !.pc = "read_fitness", !.solution = best_solution]]
  /\ UNCHANGED <<best_solution, best_fitness>>
  /\ UNCHANGED <<run_state, route_state, device_state>>

\* line 292, second element: self.best_fitness is read and the pair returned
ReadBestFitness(t) ==
  /\ threads[t].pc = "read_fitness"
  /\ threads' = [threads EXCEPT ![t] =
                   [@ EXCEPT !.pc = "done", !.fitness = best_fitness]]
  /\ UNCHANGED <<best_solution, best_fitness>>
  /\ UNCHANGED <<run_state, route_state, device_state>>

NextConcurrent ==
  \E t \in Threads :
    \/ Enter(t)
    \/ SetInitialSolution(t)
    \/ SetInitialFitness(t)
    \/ ApplyBehavior(t)
    \/ CompareWithBest(t)
    \/ UpdateBestFitness(t)
    \/ UpdateBestSolution(t)
    \/ InstallGeneration(t)
    \/ ReadBestSolution(t)
    \/ ReadBestFitness(t)

SpecConcurrent == InitConcurrent /\ [][NextConcurrent]_vars

-----------------------------------------------------------------------------
(* The signal-control routes.  The database holds one intersection, "x1",   *)
(* with one signal, "s1"; "x0" and "s0" name none.  The status one reads of  *)
(* the intersection is the status of its signal.  The database and the      *)
(* cache are services shared by every server process, so the requests of    *)
(* different processes interleave between two operations on a service; a    *)
(* step is one such operation.  (Within one event loop a handler, which     *)
(* awaits nothing, runs from its first step to its last without another     *)
(* handler in between: those are the interleavings in which the steps of a  *)
(* request are consecutive.)                                                *)

afsa_state == <<run_state, best_solution, best_fitness, threads>>

SignalStatus == {"green", "red"}

IntersectionIds == {"x1", "x0"}

SignalIds == {"s1", "s0"}

\* the rows a query finds
IntersectionExists(intersection_id) == intersection_id = "x1"

SignalExists(intersection_id, signal_id) ==
  intersection_id = "x1" /\ signal_id = "s1"

\* raise HTTPException(status_code=404, detail=...)
HTTPException404(detail) == [code |-> 404, detail |-> detail]

\* `except Exception as e: raise HTTPException(status_code=500, ...)` around
\* the body of a route (lines 64-65, 107-108, 145-146, 260-261): HTTPException
\* is an Exception, so the 404 raised in the body is caught here as well
ExceptException(e, detail) == [code |-> 500, detail |-> detail]

\* the response that ends request r
Responds(req, code, detail, body) ==
  [req EXCEPT !.pc = "done", !.code = code, !.detail = detail, !.body = body]

Raises(req, e) == Responds(req, e.code, e.detail, "none")

\* every update_signal_status received so far has completed
NoUpdateInProgress ==
  \A q \in Requests :
    requests[q].op = "update_signal_status" => requests[q].pc = "done"

\* get_intersection_status, lines 34-36: the cache is read
GetCached(r) ==
  /\ requests[r].pc = "none"
  /\ \E intersection_id \in IntersectionIds :
       LET cached_status == IF intersection_id = "x1" THEN cache ELSE "none"
           req == [requests[r] EXCEPT !.op = "get_intersection_status",
                                      !.intersections = <<intersection_id>>,
                                      !.quiet = NoUpdateInProgress,
                                      !.valid = {db.current_status}]
       IN requests' = [requests EXCEPT ![r] =
                         IF cached_status /= "none"
                         THEN Responds(req, 200, "none", cached_status)
                         ELSE [req EXCEPT !.pc = "query"]]
  /\ UNCHANGED <<db, cache, green_waves, published>>
  /\ UNCHANGED <<afsa_state, device_state>>

\* lines 39-58 and 64-65: the signals of the intersection are read
GetQuery(r) ==
  /\ requests[r].pc = "query"
  /\ requests[r].op = "get_intersection_status"
  /\ requests' = [requests EXCEPT ![r] =
                    IF ~IntersectionExists(@.intersections[1])
                    THEN Raises(@, ExceptException(
                                     HTTPException404("Intersection not found"),
                                     "Database error"))
                    ELSE [@ EXCEPT !.pc = "set_cache",
                                   !.signals = db.current_status]]
  /\ UNCHANGED <<db, cache, green_waves, published>>
  /\ UNCHANGED <<afsa_state, device_state>>

\* lines 60-63: what was read is cached and returned
GetSetCache(r) ==
  /\ requests[r].pc = "set_cache"
  /\ cache' = requests[r].signals
  /\ requests' = [requests EXCEPT ![r] = Responds(@, 200, "none", @.signals)]
  /\ UNCHANGED <<db, green_waves, published>>
  /\ UNCHANGED <<afsa_state, device_state>>

\* update_signal_status, lines 77-96 and 107-108: the signal is read and
\* changed in the session
UpdateQuery(r) ==
  /\ requests[r].pc = "none"
  /\ \E intersection_id \in IntersectionIds, signal_id \in SignalIds,
        new_status \in SignalStatus :
       LET req == [requests[r] EXCEPT !.op = "update_signal_status",
                                      !.intersections = <<intersection_id>>,
                                      !.signal_id = signal_id,
                                      !.status = new_status]
       IN requests' = [requests EXCEPT ![r] =
                         IF ~SignalExists(intersection_id, signal_id)
                         THEN Raises(req, ExceptException(
                                            HTTPException404("Signal not found"),
                                            "Database error"))
                         ELSE [req EXCEPT !.pc = "invalidate"]]
  /\ UNCHANGED <<db, cache, green_waves, published>>
  /\ UNCHANGED <<afsa_state, device_state>>

\* lines 98-99: the cache entry is deleted
UpdateInvalidate(r) ==
  /\ requests[r].pc = "invalidate"
  /\ cache' = "none"
  /\ requests' = [requests EXCEPT ![r].pc = "commit"]
  /\ UNCHANGED <<db, green_waves, published>>
  /\ UNCHANGED <<afsa_state, device_state>>

\* lines 101-106 and get_session, line 65: leaving the with block commits the
\* session, and the response is sent
UpdateCommit(r) ==
  /\ requests[r].pc = "commit"
  /\ db' = [db EXCEPT !.current_status = requests[r].status]
  /\ requests' = [q \in Requests |->
                    IF q = r
                    THEN [requests[q] EXCEPT !.pc = "publish", !.code = 200,
                                              !.body = requests[r].status]
                    ELSE IF requests[q].op = "get_intersection_status"
                            /\ requests[q].pc /= "done"
                    THEN [requests[q] EXCEPT !.valid = @ \cup {requests[r].status}]
                    ELSE requests[q]]
  /\ UNCHANGED <<cache, green_waves, published>>
  /\ UNCHANGED <<afsa_state, device_state>>

\* publish_signal_change, lines 263-276, run as a background task after the
\* response
UpdatePublish(r) ==
  /\ requests[r].pc = "publish"
  /\ published' = published + 1
  /\ requests' = [requests EXCEPT ![r].pc = "done"]
  /\ UNCHANGED <<db, cache, green_waves>>
  /\ UNCHANGED <<afsa_state, device_state>>

\* update_timing_plan, lines 118-146
UpdateTimingPlan(r) ==
  /\ requests[r].pc = "none"
  /\ \E intersection_id \in IntersectionIds, default \in {30, 45} :
       LET req == [requests[r] EXCEPT !.op = "update_timing_plan",
                                      !.intersections = <<intersection_id>>]
       IN IF ~IntersectionExists(intersection_id)
          THEN /\ requests' = [requests EXCEPT ![r] =
                                 Raises(req, ExceptException(
                                   HTTPException404("Intersection not found"),
                                   "Database error"))]
               /\ UNCHANGED <<db, published>>
          ELSE /\ db' = [db EXCEPT !.default_timing = default]
               /\ published' = published + 1
               /\ requests' = [requests EXCEPT ![r] =
                                 Responds(req, 200, "none",
                                          "Timing plan updated successfully")]
  /\ UNCHANGED <<cache, green_waves>>
  /\ UNCHANGED <<afsa_state, device_state>>

\* coordinate_green_wave, lines 213-261
CoordinateGreenWave(r) ==
  /\ requests[r].pc = "none"
  /\ \E intersections \in {<<"x1">>, <<"x1", "x0">>, <<"x0">>, <<>>} :
       LET req == [requests[r] EXCEPT !.op = "coordinate_green_wave",
                                      !.intersections = intersections]
       IN IF \E k \in 1..Len(intersections) : ~IntersectionExists(intersections[k])
          THEN /\ requests' = [requests EXCEPT ![r] =
                                 Raises(req, ExceptException(
                                   HTTPException404("Intersection x0 not found"),
                                   "Error processing request"))]
               /\ UNCHANGED <<green_waves, published>>
          ELSE /\ green_waves' = green_waves + 1
               /\ published' = published + 1
               /\ requests' = [requests EXCEPT ![r] =
                                 Responds(req, 200, "none", "scheduled")]
  /\ UNCHANGED <<db, cache>>
  /\ UNCHANGED <<afsa_state, device_state>>

\* the cache entry expires (set_intersection_status(..., expiry=30), line 61)
Expire ==
  /\ cache /= "none"
  /\ cache' = "none"
  /\ UNCHANGED <<db, green_waves, published, requests>>
  /\ UNCHANGED <<afsa_state, device_state>>

NextRoutes ==
  \/ \E r \in Requests :
       \/ GetCached(r)
       \/ GetQuery(r)
       \/ GetSetCache(r)
       \/ UpdateQuery(r)
       \/ UpdateInvalidate(r)
       \/ UpdateCommit(r)
       \/ UpdatePublish(r)
       \/ UpdateTimingPlan(r)
       \/ CoordinateGreenWave(r)
  \/ Expire

SpecRoutes == InitOne /\ [][NextRoutes]_vars

-----------------------------------------------------------------------------
(* The edge device manager.  One thread at a time calls start, stop or the  *)
(* 'restart' command; the loops run in threads of their own.  time.sleep    *)
(* and join(timeout) are untimed: a sleeping loop wakes at any moment, and  *)
(* a join returns at any moment (the thread has ended, or the 2 s have      *)
(* passed).  In each loop entry, stale records that running has been set   *)
(* False since the loop was started, and resumed that the loop has found    *)
(* running True after that.                                                 *)

\* the threads that start can create
LoopIds == 1..(2 * MaxStarts)

NewLoop(target) ==
  [target |-> target, pc |-> "test", stale |-> FALSE, resumed |-> FALSE]

Alive(target) ==
  { k \in 1..Len(loops) : loops[k].target = target /\ loops[k].pc /= "exited" }

\* start, lines 62-84: running is set and the two threads are created
StartBody ==
  /\ Len(loops) < 2 * MaxStarts
  /\ running' = TRUE
  /\ loops' = loops \o <<NewLoop("heartbeat"), NewLoop("data")>>
  /\ status' = "running"
  /\ cmd' = "idle"

\* start, lines 62-67 and 85-88: the connection to the broker fails after
\* running has been set
StartFailsBody ==
  /\ running' = TRUE
  /\ status' = "error"
  /\ cmd' = "idle"
  /\ UNCHANGED loops

\* stop, lines 92-101: running is cleared
StopBody(next) ==
  /\ running' = FALSE
  /\ status' = "stopping"
  /\ loops' = [k \in 1..Len(loops) |->
                 IF loops[k].pc /= "exited"
                 THEN [loops[k] EXCEPT !.stale = TRUE] ELSE loops[k]]
  /\ cmd' = next

Start ==
  /\ cmd = "idle"
  /\ StartBody
  /\ UNCHANGED <<afsa_state, route_state>>

StartFails ==
  /\ cmd = "idle"
  /\ StartFailsBody
  /\ UNCHANGED <<afsa_state, route_state>>

Stop ==
  /\ cmd = "idle"
  /\ StopBody("stop_join")
  /\ UNCHANGED <<afsa_state, route_state>>

\* _handle_command, lines 199-201: 'restart' calls stop
Restart ==
  /\ cmd = "idle"
  /\ StopBody("restart_join")
  /\ UNCHANGED <<afsa_state, route_state>>

\* stop, lines 103-110: the two joins return, the threads ended or not
JoinReturns ==
  /\ cmd \in {"stop_join", "restart_join"}
  /\ status' = "stopped"
  /\ cmd' = IF cmd = "stop_join" THEN "idle" ELSE "restart_sleep"
  /\ UNCHANGED <<running, loops>>
  /\ UNCHANGED <<afsa_state, route_state>>

\* _handle_command, lines 202-203: after the sleep, 'restart' calls start
RestartStarts ==
  /\ cmd = "restart_sleep"
  /\ StartBody \/ StartFailsBody
  /\ UNCHANGED <<afsa_state, route_state>>

\* _heartbeat_loop / _data_transmission_loop, lines 261-264 and 269-271:
\* `while self.running`, and the body up to the sleep
LoopTest(k) ==
  /\ k <= Len(loops)
  /\ loops[k].pc = "test"
  /\ loops' = [loops EXCEPT ![k] =
                 IF running
                 THEN [@ EXCEPT !.pc = "sleep", !.resumed = @ \/ loops[k].stale]
                 ELSE [@ EXCEPT !.pc = "exited"]]
  /\ UNCHANGED <<running, status, cmd>>
  /\ UNCHANGED <<afsa_state, route_state>>

\* lines 265 and 272: time.sleep returns
LoopWakes(k) ==
  /\ k <= Len(loops)
  /\ loops[k].pc = "sleep"
  /\ loops' = [loops EXCEPT ![k].pc = "test"]
  /\ UNCHANGED <<running, status, cmd>>
  /\ UNCHANGED <<afsa_state, route_state>>

NextDevice ==
  \/ Start
  \/ StartFails
  \/ Stop
  \/ Restart
  \/ JoinReturns
  \/ RestartStarts
  \/ \E k \in LoopIds :
       \/ LoopTest(k)
       \/ LoopWakes(k)

SpecDevice == InitOne /\ [][NextDevice]_vars

-----------------------------------------------------------------------------
(* Properties *)

Running == pc \in {"loop", "prey"}

Started == pc \in {"loop", "prey", "done"}

InBounds(p) ==
  \A j \in 1..Len(p) : lower_bounds[j] <= p[j] /\ p[j] <= upper_bounds[j]

\* individuals of the generation being built that have been stored
Stored == IF Running /\ LoopRuns(iteration) THEN 1..(i - 1) ELSE {}

\* C1. Bounds containment: every coordinate j of every individual of the
\* initial population, of every later population and of the generation being
\* built lies in [lower_bounds[j], upper_bounds[j]], whichever behaviours were
\* applied.
C1_BoundsContainment ==
  Started =>
    /\ \A k \in 1..Len(population) : InBounds(population[k])
    /\ \A k \in Stored : InBounds(new_population[k])

\* Prey has returned a position that no unclamped sample gives: the sample was
\* cut back to the bounds, and the individual now sits on a bound.
C1_Witness ==
  /\ Running
  /\ behavior = "prey"
  /\ i > 1
  /\ LET old == population[i - 1]
         new == new_population[i - 1]
     IN /\ new /= old
        /\ VecSub(new, old) \notin Directions(dimensions, hp.visual_range)
        /\ \E j \in 1..dimensions : new[j] = upper_bounds[j] \/ new[j] = lower_bounds[j]

\* C2. Feasibility bound: a returned result whose fitness is above -inf has
\* green times that sum to at most cycle_time_constraint.
C2_FeasibilityBound ==
  (result.returned /\ Feasible(result.fitness)) =>
    /\ Sum(result.green_times) <= cycle_time_constraint
    /\ result.cycle_time <= cycle_time_constraint

\* A run of all its generations has returned a feasible plan that uses the
\* whole cycle time.
C2_Witness ==
  /\ pc = "done"
  /\ result.returned
  /\ Feasible(result.fitness)
  /\ iteration = hp.max_iterations
  /\ Sum(result.green_times) = cycle_time_constraint

\* C3. Monotonic improvement: from the evaluation of the initial population
\* to the return, no step of a run lowers best_fitness; once it is above -inf
\* it stays there.
C3_MonotonicImprovement ==
  [][Running => Ge(best_fitness', best_fitness)]_vars

\* After a generation the best is strictly better than every individual of
\* the population: the individuals moved to worse positions and the best stayed.
C3_Witness ==
  /\ pc = "loop"
  /\ iteration >= 1
  /\ Feasible(best_fitness)
  /\ \A k \in 1..Len(population) : Gt(best_fitness, fitness(population[k]))

\* C4. Infeasible by construction: when the lower bounds alone exceed the
\* cycle time, the call raises nothing, and the result it returns has
\* fitness -inf.
C4_InfeasibleByConstruction ==
  Sum(lower_bounds) > cycle_time_constraint =>
    /\ error = "none"
    /\ pc /= "raised"
    /\ Started => best_fitness = NegInf
    /\ pc = "done" => result.returned /\ result.fitness = NegInf

\* Such a run has gone through all its generations and returned.
C4_Witness ==
  /\ Sum(lower_bounds) > cycle_time_constraint
  /\ pc = "done"
  /\ result.returned
  /\ result.fitness = NegInf
  /\ commits = hp.max_iterations * hp.num_fish
  /\ commits > 0

\* C5. Infeasible result signalling: the best fitness, and so the fitness
\* returned, is -inf exactly when every candidate the fitness function has
\* evaluated in the run (individuals, Prey samples, Swarm centres) violated
\* the cycle time constraint.
C5_InfeasibleSignalling ==
  /\ Started => (best_fitness = NegInf <=> ~feasible_evaluated)
  /\ pc = "done" => (result.fitness = NegInf <=> ~feasible_evaluated)

\* The first feasible candidate of a run was a Prey sample: the population is
\* infeasible throughout, and the best is the sample Prey has just returned.
C5_Witness ==
  /\ pc = "loop"
  /\ behavior = "prey"
  /\ i > 1
  /\ \A k \in 1..Len(population) : ~Feasible(fitness(population[k]))
  /\ Feasible(best_fitness)
  /\ best_solution = new_population[i - 1]

\* the checks of the Bounds & Context Validator on bounds and hyperparameters
InvalidConfiguration ==
  \/ Len(lower_bounds) /= Len(upper_bounds)
  \/ \E j \in 1..Len(lower_bounds) :
       j <= Len(upper_bounds) /\ lower_bounds[j] > upper_bounds[j]
  \/ hp.num_fish < 1
  \/ hp.max_iterations < 1
  \/ hp.visual_range <= 0
  \/ hp.crowd_factor.num <= 0
  \/ hp.crowd_factor.num > hp.crowd_factor.den
  \/ hp.step_size <= 0
  \/ hp.try_number < 1
  \/ cycle_time_constraint <= 0

\* C6. Configuration validation: a call on an instance with malformed bounds
\* or a hyperparameter out of range ends in a ConfigurationError before any
\* population is created, and returns no result.  (Any exception is counted
\* as the rejection, whatever its type.)
C6_ConfigurationRejected ==
  InvalidConfiguration =>
    /\ population = <<>>
    /\ ~result.returned
    /\ runs > 0 => error /= "none"

\* the checks of the Bounds & Context Validator on a traffic context
InvalidContext(c) ==
  \/ Len(c.volumes) /= dimensions
  \/ Len(c.queue_lengths) /= dimensions
  \/ Len(c.waiting_times) /= dimensions
  \/ c.has_emergency /\ Len(c.emergency_priority) /= dimensions
  \/ \E k \in 1..Len(c.waiting_times) : c.waiting_times[k] <= 0

\* C7. Input validation: a call with a context vector of the wrong length or
\* a waiting time <= 0 ends in an InvalidInputError before the search
\* starts: no population, no generation, no result.  (Any exception is
\* counted as the rejection, whatever its type.)
C7_InputRejected ==
  (runs > 0 /\ InvalidContext(ctx)) =>
    /\ error /= "none"
    /\ population = <<>>
    /\ iteration = 0
    /\ ~result.returned

\* C8. Determinism: a run given the inputs of the first run (same instance,
\* so same bounds and hyperparameters, and the same traffic context; optimize
\* takes no seed) returns the result of the first run.
C8_Determinism ==
  (pc = "done" /\ runs >= 2 /\ first_run.ctx = ctx) =>
    result = first_run.result

\* C9. Fixed generation budget: a run in progress ends by returning; when it
\* returns it has executed exactly max_iterations generations and processed
\* each of the num_fish individuals once in each; Prey takes at most
\* try_number samples for an individual.
C9_FixedBudget ==
  /\ [](pc = "done" => /\ result.returned
                       /\ iteration = hp.max_iterations
                       /\ commits = hp.max_iterations * hp.num_fish)
  /\ [](Running => /\ iteration <= hp.max_iterations
                   /\ commits = iteration * hp.num_fish + (i - 1)
                   /\ i <= hp.num_fish + 1
                   /\ tries < hp.try_number)
  /\ (Running ~> pc = "done")

\* A run has returned after its last generation, whose last individual was
\* moved by Prey, was installed as the population.
C9_Witness ==
  /\ pc = "done"
  /\ result.returned
  /\ iteration = hp.max_iterations
  /\ commits = hp.max_iterations * hp.num_fish
  /\ behavior = "prey"
  /\ population = new_population
  /\ hp.max_iterations >= 2

\* C10. Synchronous generational update: while a generation is computed no
\* step changes the snapshot the behaviours read; the new positions replace
\* it all at once when the generation ends.
C10_SynchronousUpdate ==
  [][Running =>
       IF iteration' = iteration
       THEN population' = population
       ELSE population' = new_population /\ i > hp.num_fish]_vars

\* In the middle of a generation the first individual's new position differs
\* from its position in the snapshot the second individual is about to read.
C10_Witness ==
  /\ pc = "loop"
  /\ LoopRuns(iteration)
  /\ i = 2
  /\ i <= hp.num_fish
  /\ new_population[1] /= population[1]
  /\ InVisualRange(population[2], population[1])

\* new_position is a position the behaviour b applied to current can have
\* returned, Prey having taken a sample for it (drawn) or not
DerivedFrom(new_position, current, pop, b, drawn) ==
  \/ new_position = current
  \/ /\ drawn
     /\ \E d \in Directions(Len(current), hp.visual_range) :
          new_position = Clamp(VecAdd(current, d))
  \/ /\ ~drawn
     /\ b = "swarm"
     /\ new_position = swarm_behavior(current, pop).pos
  \/ /\ ~drawn
     /\ b = "follow"
     /\ new_position = follow_behavior(current, pop).pos

\* C11. Population size is constant: the population holds exactly num_fish
\* individuals of `dimensions` coordinates after initialization and after
\* every generation (and so does the generation being built); individual i of
\* the new generation is derived from individual i of the previous one, no
\* other slot is written, and the new generation replaces the old in order.
C11_PopulationSizeConstant ==
  [][/\ Started' =>
        /\ Len(population') = hp.num_fish
        /\ \A k \in 1..Len(population') : Len(population'[k]) = dimensions
        /\ (Running' /\ LoopRuns(iteration')) =>
              /\ Len(new_population') = hp.num_fish
              /\ \A k \in 1..Len(new_population') :
                   Len(new_population'[k]) = dimensions
     /\ Running =>
        /\ commits' = commits + 1 =>
             /\ DerivedFrom(new_population'[i], population[i], population,
                            behavior', sampled' /= "none")
             /\ \A k \in 1..hp.num_fish :
                  k /= i => new_population'[k] = new_population[k]
        /\ iteration' /= iteration =>
             \A k \in 1..hp.num_fish : population'[k] = new_population[k]]_vars

\* A generation is complete and about to replace the population: every
\* individual has moved, and the two new individuals are different.
C11_Witness ==
  /\ pc = "loop"
  /\ LoopRuns(iteration)
  /\ i = hp.num_fish + 1
  /\ Len(new_population) = hp.num_fish
  /\ \A k \in 1..hp.num_fish : new_population[k] /= population[k]
  /\ \E k, m \in 1..hp.num_fish : new_population[k] /= new_population[m]

\* C12. Result shape: the result returned has green_times equal to the best
\* solution at the end of the run, cycle_time equal to the sum of those green
\* times, and fitness equal to the best fitness, -inf included.
C12_ResultShape ==
  pc = "done" =>
    /\ result.returned
    /\ result.green_times = best_solution
    /\ result.cycle_time = Sum(result.green_times)
    /\ result.fitness = best_fitness

\* A run has returned a feasible best of the last population that leaves
\* part of the cycle time unused.
C12_Witness ==
  /\ pc = "done"
  /\ result.returned
  /\ Feasible(result.fitness)
  /\ iteration = hp.max_iterations
  /\ result.cycle_time < cycle_time_constraint
  /\ \E k \in 1..Len(population) : population[k] = result.green_times

\* the fitness of a candidate g of two phases as the weighted sum is defined,
\* times 10 * w1 * w2
ExpectedFitness(g, c, limit) ==
  IF g[1] + g[2] > limit THEN NegInf
  ELSE LET w1 == c.waiting_times[1]
           w2 == c.waiting_times[2]
           throughput == g[1] * c.volumes[1] + g[2] * c.volumes[2]
           queue == g[1] * c.queue_lengths[1] + g[2] * c.queue_lengths[2]
           emergency == IF c.has_emergency
                        THEN g[1] * c.emergency_priority[1]
                             + g[2] * c.emergency_priority[2]
                        ELSE 0
       IN Finite(4 * w1 * w2 * throughput + 3 * w1 * w2 * queue
                 + 2 * (g[1] * w2 + g[2] * w1) + 1 * w1 * w2 * emergency)

\* the candidates within the bounds
Candidates ==
  { p \in [1..dimensions -> Span] : \A j \in 1..dimensions : p[j] \in UniformValues(j) }

\* C13. Fitness evaluation: a candidate whose sum is strictly greater than
\* cycle_time_constraint has fitness -inf; any other, a sum equal to the
\* constraint included, has 0.4 * sum(g * volumes) + 0.3 * sum(g * queue_lengths)
\* + 0.2 * sum(g / waiting_times) + 0.1 * sum(g * emergency_priority), the last
\* term 0 without emergency priorities; the best fitness recorded is that of
\* the best solution.
C13_FitnessEvaluation ==
  (Started /\ dimensions = 2) =>
    /\ \A g \in Candidates : fitness(g) = ExpectedFitness(g, ctx, cycle_time_constraint)
    /\ best_fitness = ExpectedFitness(best_solution, ctx, cycle_time_constraint)

\* With emergency priorities given, the best solution uses the whole cycle
\* time and a member of the population exceeds it.
C13_Witness ==
  /\ Started
  /\ ctx.has_emergency
  /\ Sum(best_solution) = cycle_time_constraint
  /\ Feasible(best_fitness)
  /\ best_fitness = ExpectedFitness(best_solution, ctx, cycle_time_constraint)
  /\ \E k \in 1..Len(population) : fitness(population[k]) = NegInf


\* C14. Proportion normalization: in every result with cycle_time > 0 each
\* phase proportion is green_times[j] / cycle_time and the proportions sum to
\* 1 (the numerators sum to the common denominator); no proportion is
\* computed by dividing by a cycle time that is not > 0.
C14_ProportionNormalization ==
  (pc = "done" /\ result.returned) =>
    /\ result.cycle_time > 0 =>
         /\ Len(result.phase_proportions) = Len(result.green_times)
         /\ \A j \in 1..Len(result.green_times) :
              /\ result.phase_proportions[j].num = result.green_times[j]
              /\ result.phase_proportions[j].den = result.cycle_time
         /\ Sum([j \in 1..Len(result.phase_proportions) |->
                   result.phase_proportions[j].num]) = result.cycle_time
    /\ \A j \in 1..Len(result.phase_proportions) :
         result.phase_proportions[j].den > 0


\* the state between two generations, or after the last
BetweenGenerations == (pc = "loop" /\ i = 1) \/ pc = "done"

\* C16. The best tracks the population maximum: after the initial population
\* is evaluated best_fitness is the highest fitness in it (-inf if none is
\* feasible), and after every generation it is the highest fitness of any
\* individual that has been a member of a population so far; while a
\* generation is built it is never below that.
C16_GlobalBestTracksMaximum ==
  Started =>
    /\ Ge(best_fitness, members_best)
    /\ BetweenGenerations => best_fitness = members_best
    /\ BetweenGenerations =>
         \A k \in 1..Len(population) : Ge(best_fitness, fitness(population[k]))
    /\ (pc = "loop" /\ i = 1 /\ iteration = 0) =>
         \E k \in 1..Len(population) : best_fitness = fitness(population[k])

\* After a generation the best is the fitness of a member of the population
\* installed, higher than what it was when the generation began: the maximum
\* over the members so far has grown with the generation.
C16_Witness ==
  /\ pc = "loop"
  /\ i = 1
  /\ iteration = 1
  /\ Feasible(best_fitness)
  /\ best_fitness = members_best
  /\ best_solution = population[hp.num_fish]
  /\ \A k \in 1..(hp.num_fish - 1) : Gt(best_fitness, fitness(population[k]))
  /\ behavior = "prey"


\* a pass of the loop of prey_behavior for individual i
PreyStep == pc = "prey" /\ (tries' = tries + 1 \/ commits' = commits + 1)

\* the behaviour applied to individual i returns new_position, which is stored
Returns(new_position) ==
  /\ pc' = "loop"
  /\ commits' = commits + 1
  /\ new_population'[i] = new_position

\* C17. Prey is first-improvement: it takes at most try_number samples, each
\* the current position plus visual_range along a direction, clamped; the
\* first sample whose fitness is strictly greater than the current
\* position's is returned at once, a sample that is not is passed over, and
\* after try_number samples without improvement the current position is
\* returned unchanged.
C17_PreyFirstImprovement ==
  [][PreyStep =>
       LET current == population[i]
       IN /\ tries < hp.try_number
          /\ sampled' /= "none"
          /\ IF sampled' = "better"
             THEN \E d \in Directions(dimensions, hp.visual_range) :
                    LET new_position == Clamp(VecAdd(current, d))
                    IN /\ Gt(fitness(new_position), fitness(current))
                       /\ Returns(new_position)
             ELSE IF tries + 1 = hp.try_number
             THEN Returns(current)
             ELSE /\ pc' = "prey"
                  /\ tries' = tries + 1
                  /\ commits' = commits
                  /\ new_population' = new_population]_vars

\* Prey has returned a sample that improves on the position it started from
\* although another sample would have improved more.
C17_Witness ==
  /\ pc = "loop"
  /\ LoopRuns(iteration)
  /\ i > 1
  /\ behavior = "prey"
  /\ sampled = "better"
  /\ new_population[i - 1] /= population[i - 1]
  /\ Gt(fitness(new_population[i - 1]), fitness(population[i - 1]))
  /\ \E better \in PreySamples(population[i - 1]) :
       Gt(fitness(better), fitness(new_population[i - 1]))


\* behaviour b is drawn for individual i and applied
BehaviourStep(b) ==
  /\ pc = "loop"
  /\ LoopRuns(iteration)
  /\ i <= hp.num_fish
  /\ behavior' = b
  /\ (pc' = "prey" \/ commits' = commits + 1)

\* the behaviour hands individual i over to Prey: what it returns will be what
\* Prey returns for the same position
HandsOverToPrey ==
  /\ pc' = "prey"
  /\ tries' = 0
  /\ sampled' = "none"
  /\ commits' = commits
  /\ new_population' = new_population
  /\ population' = population

\* the behaviour returns new_position itself, Prey taking no sample
ReturnsDirectly(new_position) == Returns(new_position) /\ sampled' = "none"

\* p is a neighbour of current: 0 < distance < visual_range
IsNeighbor(p, current) ==
  0 < Dist2(p, current) /\ Dist2(p, current) < hp.visual_range * hp.visual_range

NeighborSet(current) ==
  { k \in 1..Len(population) : IsNeighbor(population[k], current) }

\* C18. Swarm with an empty neighbour set stays put: when no member p of the
\* population has 0 < distance(p, current) < visual_range (members at
\* distance 0, the individual itself among them, and members at distance
\* exactly visual_range do not count), Swarm returns the current position
\* unchanged and Prey is not called.
C18_SwarmEmptyStaysPut ==
  [][(BehaviourStep("swarm") /\ NeighborSet(population[i]) = {}) =>
       ReturnsDirectly(population[i])]_vars

\* Swarm has left an individual where it was, Prey taking no sample, although
\* another member is at distance exactly visual_range and a Prey sample
\* would have improved on the position.
C18_Witness ==
  /\ pc = "loop"
  /\ LoopRuns(iteration)
  /\ i > 1
  /\ behavior = "swarm"
  /\ sampled = "none"
  /\ new_population[i - 1] = population[i - 1]
  /\ NeighborSet(population[i - 1]) = {}
  /\ \E k \in 1..Len(population) :
       Dist2(population[k], population[i - 1]) = hp.visual_range * hp.visual_range
  /\ \E better \in PreySamples(population[i - 1]) :
       Gt(fitness(better), fitness(population[i - 1]))


\* the grid points nearest to current + step_size * direction / |direction|:
\* on every coordinate the move differs from step_size * direction[j] /
\* |direction| by at most half a unit.  Along an axis that is the point at
\* distance exactly step_size.
StepPoints(current, direction) ==
  LET n == Len(current)
      s == hp.step_size
      d2 == DotTo(direction, direction, n)
      reach == 0 - (Abs(s) + 1) .. Abs(s) + 1
      Near(a, x) ==
        /\ a /= 0 => Sign(a) = Sign(s) * Sign(x)
        /\ a /= 0 => (2 * Abs(a) - 1) * (2 * Abs(a) - 1) * d2 <= 4 * s * s * x * x
        /\ 4 * s * s * x * x <= (2 * Abs(a) + 1) * (2 * Abs(a) + 1) * d2
  IN { VecAdd(current, move) :
         move \in { m \in [1..n -> reach] : \A j \in 1..n : Near(m[j], direction[j]) } }

\* bounds applied to a position, coordinate by coordinate
Clamped(p) ==
  [j \in 1..Len(p) |->
     IF p[j] < lower_bounds[j] THEN lower_bounds[j]
     ELSE IF p[j] > upper_bounds[j] THEN upper_bounds[j] ELSE p[j]]

\* the behaviour returns current moved step_size toward target, clamped
ReturnsStepToward(current, direction) ==
  \E p \in StepPoints(current, direction) : ReturnsDirectly(Clamped(p))

\* count / num_fish > crowd_factor
Overcrowded(count) ==
  count * hp.crowd_factor.den > hp.crowd_factor.num * hp.num_fish

GenerationComplete == pc = "loop" /\ LoopRuns(iteration) /\ i = hp.num_fish + 1

\* the orders in which the individuals' results can be compared
Orders ==
  { o \in [1..hp.num_fish -> 1..hp.num_fish] :
      \A a, b \in 1..hp.num_fish : a /= b => o[a] /= o[b] }

\* C21. Order-independent reduction, as claimed: for the new candidates of a
\* generation, the best solution and the best fitness at the end of the
\* generation are the same whatever the order in which the candidates are
\* compared with the best.
C21_OrderIndependentBest ==
  GenerationComplete =>
    \A o \in Orders :
      FoldBest(best_before, new_population, o)
        = [solution |-> best_solution, fitness |-> best_fitness]

\* C21, amended: the best fitness at the end of the generation is the same
\* whatever the order; the best solution is the same too unless different new
\* candidates share the highest fitness and it is above the best the
\* generation began with, in which case the one compared first is kept and
\* any order yields a solution of that fitness.
C21_OrderIndependentFitness ==
  GenerationComplete =>
    \A o \in Orders :
      LET other == FoldBest(best_before, new_population, o)
      IN /\ other.fitness = best_fitness
         /\ other.solution /= best_solution =>
              /\ Gt(best_fitness, best_before.fitness)
              /\ fitness(other.solution) = best_fitness
              /\ fitness(best_solution) = best_fitness
              /\ \E k, m \in 1..hp.num_fish :
                   /\ new_population[k] = best_solution
                   /\ new_population[m] = other.solution

\* A generation has produced two different candidates of the same fitness,
\* above the best it began with; the one compared first is the best.
C21_Witness ==
  /\ GenerationComplete
  /\ hp.num_fish >= 2
  /\ new_population[1] /= new_population[2]
  /\ fitness(new_population[1]) = fitness(new_population[2])
  /\ Gt(fitness(new_population[1]), best_before.fitness)
  /\ best_solution = new_population[1]
  /\ best_fitness = fitness(new_population[2])


\* the step stores the new position of individual i
Stores == Running /\ commits' = commits + 1

\* C23. The best is a consistent pair: throughout a run best_fitness is the
\* fitness of best_solution; the best solution is a copy of a member of the
\* initial population or of the individual just stored in the generation
\* being built, and a step that does not replace it, the installation of the
\* new population included, leaves it as it is.
C23_ConsistentPair ==
  [][/\ Started' => best_fitness' = fitness_function(best_solution', ctx',
                                                     cycle_time_constraint)
     /\ (~Running /\ pc' = "loop") =>
          \E k \in 1..Len(population') : best_solution' = population'[k]
     /\ (Running /\ best_solution' /= best_solution) =>
          /\ Stores
          /\ best_solution' = new_population'[i]
          /\ Gt(best_fitness', best_fitness)
     /\ (Running /\ population' /= population) => best_solution' = best_solution]_vars

\* The best was found before the generation in progress began: it is a member
\* of the population installed since, and none of the individuals stored so
\* far in the generation being built is at it.
C23_Witness ==
  /\ pc = "loop"
  /\ iteration >= 1
  /\ Feasible(best_fitness)
  /\ best_fitness = fitness(best_solution)
  /\ best_solution = best_before.solution
  /\ \E k \in 1..Len(population) : population[k] = best_solution
  /\ i > 1
  /\ \A k \in 1..(i - 1) : new_population[k] /= best_solution

\* C24. Prey never lowers fitness: the position Prey returns has a fitness
\* greater than or equal to that of the position it was given; a feasible
\* individual is not moved to an infeasible position.
C24_PreyNeverLowers ==
  [][(PreyStep /\ Stores) =>
       /\ Ge(fitness(new_population'[i]), fitness(population[i]))
       /\ Feasible(fitness(population[i])) => Feasible(fitness(new_population'[i]))]_vars

\* Prey has left a feasible individual where it was after try_number samples,
\* although some of the positions a sample can give are infeasible.
C24_Witness ==
  /\ pc = "loop"
  /\ LoopRuns(iteration)
  /\ i > 1
  /\ behavior = "prey"
  /\ sampled = "not_better"
  /\ new_population[i - 1] = population[i - 1]
  /\ Feasible(fitness(population[i - 1]))
  /\ \E s \in PreySamples(population[i - 1]) : ~Feasible(fitness(s))

\* the step stores what Swarm or Follow returns for individual i
StoresSwarmOrFollow == Stores /\ behavior' \in {"swarm", "follow"}

\* C25. Swarm and Follow keep feasible individuals feasible, as claimed: when
\* the current position meets the cycle time constraint, so does the position
\* Swarm or Follow returns, the step_size move included.
C25_SwarmFollowKeepFeasible ==
  [][(StoresSwarmOrFollow /\ Feasible(fitness(population[i]))) =>
       Feasible(fitness(new_population'[i]))]_vars

\* C25, amended: when the current position meets the cycle time constraint,
\* so does the position Swarm or Follow returns when it is the current
\* position or what Prey returns; the step_size move toward the centroid or
\* the best neighbour can end beyond the constraint.
C25_FallbackKeepsFeasible ==
  [][(StoresSwarmOrFollow /\ Feasible(fitness(population[i]))
      /\ (sampled' /= "none" \/ new_population'[i] = population[i])) =>
       Feasible(fitness(new_population'[i]))]_vars

\* Swarm or Follow has handed a feasible individual to Prey, which returned
\* a better position, although some of the positions a sample can give are
\* infeasible.
C25_Witness ==
  /\ pc = "loop"
  /\ LoopRuns(iteration)
  /\ i > 1
  /\ behavior \in {"swarm", "follow"}
  /\ sampled = "better"
  /\ Feasible(fitness(population[i - 1]))
  /\ Feasible(fitness(new_population[i - 1]))
  /\ new_population[i - 1] /= population[i - 1]
  /\ \E s \in PreySamples(population[i - 1]) : ~Feasible(fitness(s))

\* every point of the bounds box violates the cycle time constraint
AllInfeasible == Sum(lower_bounds) > cycle_time_constraint

\* C26. All-infeasible stasis: when every point of the box violates the cycle
\* time constraint no individual moves, whichever behaviour is drawn: every
\* position stored is the individual's position, and the population installed
\* after a generation is the population before it.
C26_AllInfeasibleStasis ==
  [][(AllInfeasible /\ Running) =>
       /\ Stores => new_population'[i] = population[i]
       /\ population' = population]_vars

\* In the second generation of such a run Swarm, applied to an individual
\* with a neighbour, has handed it to Prey and stored it where it was.
C26_Witness ==
  /\ AllInfeasible
  /\ pc = "loop"
  /\ iteration >= 1
  /\ LoopRuns(iteration)
  /\ i > 1
  /\ behavior = "swarm"
  /\ sampled = "not_better"
  /\ NeighborSet(population[i - 1]) /= {}
  /\ new_population[i - 1] = population[i - 1]


\* C27. No state carries over between runs: a call on an instance that has
\* completed a run sets the best to the best of its own initial population,
\* whatever the best of the run before was, and the result of a later run is
\* the highest fitness of its own populations, under its own context.
C27_NoCarryOver ==
  [][/\ (pc = "done" /\ pc' = "loop") =>
          /\ best_fitness' = MaxFitness(population', ctx')
          /\ \E k \in 1..Len(population') :
               /\ best_solution' = population'[k]
               /\ best_fitness' = fitness_function(population'[k], ctx',
                                                    cycle_time_constraint)
     /\ (pc' = "done" /\ runs' >= 2) =>
          /\ result'.fitness = members_best'
          /\ result'.fitness = fitness_function(result'.green_times, ctx',
                                                cycle_time_constraint)]_vars

\* The second run, on another traffic context, has returned a feasible result
\* of lower fitness than the first run's.
C27_Witness ==
  /\ pc = "done"
  /\ runs = 2
  /\ first_run.result.returned
  /\ ctx /= first_run.ctx
  /\ result.returned
  /\ Feasible(result.fitness)
  /\ Gt(first_run.result.fitness, result.fitness)


\* C22. Two calls of optimize interleaved on one instance are isolated: each
\* returns a solution that was a member of one of its own populations, with
\* the fitness its own fitness function gives that solution, and that fitness
\* is not below the fitness of any member of its own populations (no update
\* of the best is lost or taken from the other call).
C22_RunsIsolated ==
  \A t \in Threads :
    threads[t].pc = "done" =>
      /\ threads[t].solution \in threads[t].members
      /\ threads[t].fitness = fitness_of(t, threads[t].solution)
      /\ \A p \in threads[t].members : Ge(threads[t].fitness, fitness_of(t, p))


\* the request names an intersection or a signal that the database does not hold
NamesAbsent(req) ==
  \/ \E k \in 1..Len(req.intersections) : ~IntersectionExists(req.intersections[k])
  \/ /\ req.op = "update_signal_status"
     /\ ~SignalExists(req.intersections[1], req.signal_id)

\* C28. A request to get_intersection_status, update_signal_status,
\* update_timing_plan or coordinate_green_wave that names an intersection or a
\* signal absent from the database ends with status 404, and not with a 500
\* database-error response, and changes neither the signals nor the cache.
C28_NotFoundIs404 ==
  [][\A r \in Requests :
       (requests[r].pc /= "done" /\ requests'[r].pc = "done"
        /\ NamesAbsent(requests'[r])) =>
         /\ requests'[r].code = 404
         /\ db' = db
         /\ cache' = cache]_vars

\* C29. Once an update_signal_status has completed, every later
\* get_intersection_status reports the new status: a get received when no
\* update is in progress answers with the status committed when it was
\* received, or with one committed while it was being served.
C29_NoStaleStatus ==
  \A r \in Requests :
    (/\ requests[r].op = "get_intersection_status"
     /\ requests[r].pc = "done"
     /\ requests[r].code = 200
     /\ requests[r].quiet) =>
      requests[r].body \in requests[r].valid


\* C30. After any sequence of start, stop and 'restart' on an
\* EdgeDeviceManager at most one heartbeat loop and at most one
\* data-transmission loop are running, and no loop that was running when stop
\* set running to False goes on once start has set it to True again.
C30_SingleSetOfLoops ==
  /\ Cardinality(Alive("heartbeat")) <= 1
  /\ Cardinality(Alive("data")) <= 1
  /\ \A k \in 1..Len(loops) : ~loops[k].resumed

====
